---- MODULE Spec2Model ----
(***************************************************************************)
(* Steez Sales System (src/main.py): the sales table, the AUTOINCREMENT    *)
(* key, and the request handlers record_sale, update_sale, get_sales,      *)
(* delete_sale and dashboard.  Every handler opens a connection, runs one  *)
(* statement, commits and returns, so each handler is one atomic action.   *)
(* Amounts are integers counting thousandths of a currency unit, so that   *)
(* round(x, 2) is a rounding to the nearest multiple of 10.                *)
(***************************************************************************)
EXTENDS Integers, Sequences, FiniteSets, TLC

VARIABLES
    sales,      \* the rows of table sales: a set of records with unique id
    seq,        \* sqlite_sequence.seq for table sales: largest id ever used
    assigned,   \* history: every id an INSERT has ever produced
    last        \* the last request handled and the value it returned

vars == <<sales, seq, assigned, last>>

\* Cap on the AUTOINCREMENT counter: no INSERT is modelled beyond it.
MaxId == 3

\* ------------------------------------------------------------------ inputs
Dates == {"2023-01-01", "2023-06-01", "2024-01-01", "not-a-date"}

\* Pairs <<invoice_total, amount_paid>>: nothing billed and nothing paid,
\* paid in full, part paid, overpaid, nothing paid, a negative payment.
Amounts == {<<0, 0>>, <<10, 10>>, <<10, 4>>, <<4, 10>>, <<10, 0>>, <<10, -10>>}

MkSale(date, invoice_total, amount_paid) ==
    [supplier |-> "KONE", party |-> "THE MELROSE", date |-> date,
     work_type |-> "Lifts", completion_percent |-> 100,
     quotation_no |-> "Q1", po_no |-> "PO1", invoice_no |-> "INV1",
     invoice_total |-> invoice_total, amount_paid |-> amount_paid]

\* class Sale(BaseModel): the request bodies of record-sale and update-sale.
\* The amounts vary under one date, the dates under one pair of amounts.
Sale ==
    {MkSale("2023-01-01", a[1], a[2]) : a \in Amounts}
        \cup {MkSale(d, 10, 4) : d \in Dates}

\* sale_id: int path parameter of update-sale and delete-sale.
SaleIds == (-1) .. MaxId

\* An optional argument: None is <<>>, the value v is <<v>>.
None == <<>>
Some(v) == <<v>>

NoSale == "none"

\* ----------------------------------------------------------- save_sale
OutstandingSwapped(sale) == sale.amount_paid - sale.invoice_total

\* outstanding = sale.invoice_total - sale.amount_paid
Outstanding(sale) == sale.invoice_total - sale.amount_paid

StatusPaidAtLeastZero(sale) ==
    IF Outstanding(sale) = 0 THEN "Paid"
    ELSE IF sale.amount_paid >= 0 THEN "Partial"
    ELSE "Unpaid"

StatusPaidOverTotal(sale) ==
    IF sale.invoice_total - sale.amount_paid = 0 THEN "Paid"
    ELSE IF sale.amount_paid > sale.invoice_total THEN "Partial"
    ELSE "Unpaid"

\* if outstanding == 0 / elif sale.amount_paid > 0 / else
Status(sale) ==
    IF Outstanding(sale) = 0 THEN "Paid"
    ELSE IF sale.amount_paid > 0 THEN "Partial"
    ELSE "Unpaid"

\* profit = sale.amount_paid
Profit(sale) == sale.amount_paid

\* round(x, 2) on an amount in thousandths: nearest multiple of 10, a tie
\* going to the even hundredth.
Round2(x) ==
    LET q == x \div 10
        r == x % 10
    IN  IF r < 5 THEN 10 * q
        ELSE IF r > 5 THEN 10 * (q + 1)
        ELSE IF q % 2 = 0 THEN 10 * q ELSE 10 * (q + 1)

\* `if sale_id:` : None and 0 are both false.
Truthy(sale_id) == sale_id # None /\ sale_id[1] # 0

\* The thirteen bound values of the UPDATE / INSERT, as the row with key id.
SaleRow(id, sale) ==
    [id |-> id,
     supplier |-> sale.supplier, party |-> sale.party, date |-> sale.date,
     work_type |-> sale.work_type,
     completion_percent |-> sale.completion_percent,
     quotation_no |-> sale.quotation_no, po_no |-> sale.po_no,
     invoice_no |-> sale.invoice_no,
     invoice_total |-> sale.invoice_total, amount_paid |-> sale.amount_paid,
     outstanding |-> Outstanding(sale), status |-> Status(sale),
     profit |-> Profit(sale)]

\* UPDATE sales SET ... WHERE id=?
UpdateWhereId(table, id, sale) ==
    {IF r.id = id THEN SaleRow(r.id, sale) ELSE r : r \in table}

Ids(table) == {r.id : r \in table}

SetMax(S) == CHOOSE m \in S : \A x \in S : x <= m

NextIdReuse(table, s) == IF table = {} THEN 1 ELSE SetMax(Ids(table)) + 1

\* id INTEGER PRIMARY KEY AUTOINCREMENT: one more than the largest id the
\* table has ever held (sqlite_sequence), never a value of a deleted row.
NextId(table, s) == s + 1

\* The dict save_sale returns.
SaveResult(sale) ==
    [outstanding |-> Round2(Outstanding(sale)),
     status |-> Status(sale),
     profit |-> Round2(Profit(sale))]

save_sale(op, sale, sale_id) ==
    /\ IF Truthy(sale_id)
       THEN /\ sales' = UpdateWhereId(sales, sale_id[1], sale)
            /\ UNCHANGED <<seq, assigned>>
       ELSE /\ seq < MaxId
            /\ sales' = sales \cup {SaleRow(NextId(sales, seq), sale)}
            /\ seq' = NextId(sales, seq)
            /\ assigned' = assigned \cup {NextId(sales, seq)}
    /\ last' = [op |-> op, sale_id |-> sale_id, sale |-> sale,
                body |-> SaveResult(sale)]

\* @app.post("/record-sale")
record_sale == \E sale \in Sale : save_sale("record_sale", sale, None)

\* @app.put("/update-sale/{sale_id}")
update_sale ==
    \E sale_id \in SaleIds, sale \in Sale :
        save_sale("update_sale", sale, Some(sale_id))

\* ----------------------------------------------------------- get_sales
RECURSIVE OrderByIdAscending(_)
OrderByIdAscending(table) ==
    IF table = {} THEN <<>>
    ELSE LET r == CHOOSE x \in table : \A y \in table : x.id <= y.id
         IN  <<r>> \o OrderByIdAscending(table \ {r})

\* SELECT * FROM sales ORDER BY id DESC
RECURSIVE OrderByIdDesc(_)
OrderByIdDesc(table) ==
    IF table = {} THEN <<>>
    ELSE LET r == CHOOSE x \in table : \A y \in table : x.id >= y.id
         IN  <<r>> \o OrderByIdDesc(table \ {r})

\* @app.get("/sales")
get_sales ==
    /\ last' = [op |-> "get_sales", sale_id |-> None, sale |-> NoSale,
                body |-> OrderByIdDesc(sales)]
    /\ UNCHANGED <<sales, seq, assigned>>

\* ---------------------------------------------------------- delete_sale
DeleteWhereIdUpTo(table, id) == {r \in table : r.id > id}

\* DELETE FROM sales WHERE id=?
DeleteWhereId(table, id) == {r \in table : r.id # id}

\* @app.delete("/delete-sale/{sale_id}")
delete_sale ==
    \E sale_id \in SaleIds :
        /\ sales' = DeleteWhereId(sales, sale_id)
        /\ last' = [op |-> "delete_sale", sale_id |-> Some(sale_id),
                    sale |-> NoSale, body |-> [status |-> "deleted"]]
        /\ UNCHANGED <<seq, assigned>>

\* ------------------------------------------------------------ dashboard
\* A missing value of a column: NaT after to_datetime, NaN in column year.
NaN == <<>>

YearOrEpoch(date) ==
    CASE date = "2023-01-01" -> Some(2023)
      [] date = "2023-06-01" -> Some(2023)
      [] date = "2024-01-01" -> Some(2024)
      [] OTHER -> Some(1970)

\* pd.to_datetime(date, errors="coerce").year: the calendar year of a date
\* that parses, NaN for a string that does not.
Year(date) ==
    CASE date = "2023-01-01" -> Some(2023)
      [] date = "2023-06-01" -> Some(2023)
      [] date = "2024-01-01" -> Some(2024)
      [] OTHER -> NaN

\* pd.read_sql_query("SELECT * FROM sales"): the rows in rowid order.
RECURSIVE ReadSql(_)
ReadSql(table) ==
    IF table = {} THEN <<>>
    ELSE LET r == CHOOSE x \in table : \A y \in table : x.id <= y.id
         IN  <<r>> \o ReadSql(table \ {r})

RECURSIVE SortAsc(_)
SortAsc(S) ==
    IF S = {} THEN <<>>
    ELSE LET m == CHOOSE x \in S : \A y \in S : x <= y
         IN  <<m>> \o SortAsc(S \ {m})

RECURSIVE AggFirst(_, _, _)
AggFirst(df, y, i) ==
    IF i > Len(df)
    THEN [year |-> y, invoice_total |-> 0, amount_paid |-> 0,
          outstanding |-> 0, profit |-> 0]
    ELSE LET r == df[i]
         IN  IF Year(r.date) = Some(y)
             THEN [year |-> y, invoice_total |-> r.invoice_total,
                   amount_paid |-> r.amount_paid,
                   outstanding |-> r.outstanding, profit |-> r.profit]
             ELSE AggFirst(df, y, i + 1)

\* One pass over the frame, adding the four columns of the rows of a year.
RECURSIVE AggSum(_, _, _)
AggSum(df, y, i) ==
    IF i > Len(df)
    THEN [year |-> y, invoice_total |-> 0, amount_paid |-> 0,
          outstanding |-> 0, profit |-> 0]
    ELSE LET rest == AggSum(df, y, i + 1)
             r == df[i]
         IN  IF Year(r.date) = Some(y)
             THEN [year |-> y,
                   invoice_total |-> r.invoice_total + rest.invoice_total,
                   amount_paid |-> r.amount_paid + rest.amount_paid,
                   outstanding |-> r.outstanding + rest.outstanding,
                   profit |-> r.profit + rest.profit]
             ELSE rest

\* df.groupby("year").agg(sum).reset_index().to_dict(orient="records"):
\* groupby drops the NaN key and sorts the groups by year.
Yearly(table) ==
    LET df == ReadSql(table)
        keys == SortAsc({Year(df[i].date)[1] :
                           i \in {j \in 1 .. Len(df) : Year(df[j].date) # NaN}})
    IN  IF Len(df) = 0 THEN <<>>
        ELSE [k \in 1 .. Len(keys) |-> AggSum(df, keys[k], 1)]

\* @app.get("/dashboard-yearly")
dashboard ==
    /\ last' = [op |-> "dashboard", sale_id |-> None, sale |-> NoSale,
                body |-> Yearly(sales)]
    /\ UNCHANGED <<sales, seq, assigned>>

\* ------------------------------------------------------------ behaviour
\* init_db(): CREATE TABLE IF NOT EXISTS on a fresh database file.
Init ==
    /\ sales = {}
    /\ seq = 0
    /\ assigned = {}
    /\ last = [op |-> "init", sale_id |-> None, sale |-> NoSale,
               body |-> <<>>]

Next ==
    \/ record_sale
    \/ update_sale
    \/ get_sales
    \/ delete_sale
    \/ dashboard

Spec == Init /\ [][Next]_vars

\* ------------------------------------------------------------ properties
IsSave == last.op \in {"record_sale", "update_sale"}

\* The rows the last save request wrote: the inserted row holds the newest
\* id, an update writes the rows whose id is the request's sale_id.
Written ==
    IF last.op = "record_sale" \/ last.sale_id = Some(0)
    THEN {r \in sales : r.id = SetMax(assigned)}
    ELSE {r \in sales : r.id = last.sale_id[1]}

\* C1: every stored row has outstanding = invoice_total - amount_paid.
C1_OutstandingDerived ==
    \A r \in sales : r.outstanding = r.invoice_total - r.amount_paid

C1_Witness ==
    /\ last.op = "update_sale"
    /\ \E r \in Written : r.outstanding < 0
    /\ \E r \in sales : r.outstanding > 0

\* C2: the status save_sale stores and returns is Paid when T = P, Partial
\* when T # P and P > 0, Unpaid when P = 0 and T # 0, and the stored and the
\* returned status are the same value.
C2_StatusByCase ==
    IsSave =>
        LET T == last.sale.invoice_total
            P == last.sale.amount_paid
            given == {last.body.status} \cup {r.status : r \in Written}
        IN  /\ last.op = "record_sale" => Written # {}
            /\ T = P => given = {"Paid"}
            /\ (T # P /\ P > 0) => given = {"Partial"}
            /\ (P = 0 /\ T # 0) => given = {"Unpaid"}

C2_Witness ==
    /\ last.op = "update_sale"
    /\ Written # {}
    /\ last.sale.amount_paid > last.sale.invoice_total
    /\ last.body.status = "Partial"

\* C3 as stated: a record is given status Unpaid only if its amount_paid is 0
\* and its outstanding is not 0.
C3_UnpaidOnlyIfPaidZero ==
    /\ \A r \in sales :
          r.status = "Unpaid" => (r.amount_paid = 0 /\ r.outstanding # 0)
    /\ (IsSave /\ last.body.status = "Unpaid") =>
          (last.sale.amount_paid = 0
              /\ last.sale.invoice_total # last.sale.amount_paid)

\* C3 amended: a record is given status Unpaid exactly if its amount_paid is
\* at most 0 and its outstanding is not 0.
C3_UnpaidIffPaidAtMostZero ==
    /\ \A r \in sales :
          r.status = "Unpaid" <=> (r.amount_paid <= 0 /\ r.outstanding # 0)
    /\ IsSave =>
          (last.body.status = "Unpaid" <=>
              (last.sale.amount_paid <= 0
                  /\ last.sale.invoice_total # last.sale.amount_paid))

C3_Witness ==
    /\ IsSave
    /\ last.sale.amount_paid < 0
    /\ last.body.status = "Unpaid"
    /\ \E r \in Written : r.status = "Unpaid" /\ r.amount_paid < 0

\* C4: an update-sale whose sale_id matches no stored row leaves the table
\* unchanged and returns the derived outstanding, status and profit.
C4_UpdateAbsentIsNoOp ==
    [][(last'.op = "update_sale" /\ last'.sale_id[1] \notin Ids(sales)) =>
          /\ sales' = sales
          /\ DOMAIN last'.body = {"outstanding", "status", "profit"}]_vars

\* C5: delete-sale removes exactly the rows with that id and acknowledges; a
\* list-sales that follows does not contain the id; deleting an absent id
\* changes nothing and acknowledges the same way.
C5_DeleteExactAndIdempotent ==
    [][/\ last'.op = "delete_sale" =>
            /\ sales' = {r \in sales : r.id # last'.sale_id[1]}
            /\ last'.body = [status |-> "deleted"]
            /\ last'.sale_id[1] \notin Ids(sales) => sales' = sales
       /\ (last.op = "delete_sale" /\ last'.op = "get_sales") =>
            \A i \in 1 .. Len(last'.body) :
                last'.body[i].id # last.sale_id[1]]_vars

C5_Witness ==
    /\ last.op = "delete_sale"
    /\ last.sale_id[1] \in assigned
    /\ last.sale_id[1] \notin Ids(sales)
    /\ Cardinality(sales) = 2

\* C6: list-sales returns every stored row exactly once, in strictly
\* descending order of id.
C6_ListAllDescending ==
    last.op = "get_sales" =>
        LET body == last.body
        IN  /\ Len(body) = Cardinality(sales)
            /\ {body[i] : i \in 1 .. Len(body)} = sales
            /\ \A i, j \in 1 .. Len(body) : i < j => body[i].id > body[j].id

C6_Witness ==
    /\ last.op = "get_sales"
    /\ Len(last.body) = 3
    /\ last.body[1].id = 3

\* C7: update-sale overwrites the non-id fields of the row whose id matches,
\* keeps that row's id, leaves every other row unchanged and leaves the set
\* of ids in the table unchanged.
C7_UpdateKeepsIds ==
    [][last'.op = "update_sale" =>
          LET id == last'.sale_id[1]
              inp == last'.sale
          IN  /\ Ids(sales') = Ids(sales)
              /\ \A r \in sales : r.id # id => r \in sales'
              /\ \A r \in sales' :
                    r.id = id =>
                        \A f \in DOMAIN inp : r[f] = inp[f]]_vars

\* C8: each record-sale adds exactly one row, whose id is greater than every
\* id assigned before, also after rows have been deleted.
C8_IdsMonotonic ==
    [][last'.op = "record_sale" =>
          \E r \in sales' :
              /\ r \notin sales
              /\ sales' = sales \cup {r}
              /\ \A i \in assigned \cup Ids(sales) : r.id > i
              /\ assigned' = assigned \cup {r.id}]_vars

C8_Witness ==
    /\ last.op = "record_sale"
    /\ Cardinality(assigned) >= 2
    /\ Ids(sales) = {SetMax(assigned)}

\* The column names dashboard sums.
SumColumns == {"invoice_total", "amount_paid", "outstanding", "profit"}

RECURSIVE SumOf(_, _)
SumOf(rows, column) ==
    IF rows = {} THEN 0
    ELSE LET r == CHOOSE x \in rows : TRUE
         IN  r[column] + SumOf(rows \ {r}, column)

RECURSIVE SeqSumOf(_, _)
SeqSumOf(body, column) ==
    IF body = <<>> THEN 0
    ELSE Head(body)[column] + SeqSumOf(Tail(body), column)

\* C9: dashboard-yearly returns one row per calendar year among the rows
\* whose date parses, each holding the sums of the four stored fields over
\* the rows of that year; on an empty table it returns the empty sequence.
C9_YearlySums ==
    last.op = "dashboard" =>
        LET body == last.body
            dated == {r \in sales : Year(r.date) # NaN}
            years == {Year(r.date)[1] : r \in dated}
        IN  /\ Len(body) = Cardinality(years)
            /\ {body[i].year : i \in 1 .. Len(body)} = years
            /\ \A i \in 1 .. Len(body) :
                  \A c \in SumColumns :
                      body[i][c] =
                          SumOf({r \in dated :
                                    Year(r.date) = Some(body[i].year)}, c)
            /\ sales = {} => body = <<>>

C9_Witness ==
    /\ last.op = "dashboard"
    /\ Len(last.body) = 2
    /\ \E i \in 1 .. 2 :
          /\ last.body[i].year = 2023
          /\ last.body[i].invoice_total = 20
          /\ last.body[i].outstanding = 16

\* The date strings of the inputs that are no calendar date.
Unparseable == {"not-a-date"}

\* C10: a row whose date does not parse is returned by list-sales and adds
\* to no row of dashboard-yearly, which then lists the dated rows only, and
\* nothing when no row is dated.
C10_UnparseableSkipped ==
    LET undated == {r \in sales : r.date \in Unparseable}
        dated == sales \ undated
    IN  /\ last.op = "get_sales" =>
              \A r \in undated : \E i \in 1 .. Len(last.body) : last.body[i] = r
        /\ last.op = "dashboard" =>
              /\ Len(last.body) <= Cardinality(dated)
              /\ dated = {} => last.body = <<>>
              /\ \A c \in SumColumns :
                    SeqSumOf(last.body, c) = SumOf(dated, c)

C10_Witness ==
    /\ last.op = "dashboard"
    /\ \E r \in sales : r.date \in Unparseable
    /\ \E r \in sales : r.date \notin Unparseable
    /\ Len(last.body) = 1

====
